---- MODULE Spec2Model ----
(***************************************************************************)
(* Mythweaver rules engine (app/services/rules_engine.py).                 *)
(*                                                                         *)
(* One behaviour of Spec is one invocation of one operation of the engine: *)
(* perform_check, stepped at its calls of roll_d12, or                     *)
(* validate_character_creation, applied to a candidate as one step.        *)
(* SpecReplay invokes perform_check a second time with the arguments and   *)
(* the die rolls of the first invocation.                                  *)
(* SpecEdges invokes perform_check a second time under another edge mode   *)
(* with the die rolls of the first invocation.                             *)
(* SpecMutable lets the caller assign to the CheckResult it was returned.  *)
(* SpecCalc applies the two bonus calculators to a score, SpecDerived the  *)
(* three derived-stat functions.  SpecCampaign is one invocation of        *)
(* create_campaign (app/services/campaign_service.py), stepped at its      *)
(* awaits, followed by reads of the campaign through the router.           *)
(* SpecUntyped                                                             *)
(* gives the two validators arguments that hold values of another type     *)
(* than the annotated one.                                                 *)
(***************************************************************************)
EXTENDS Integers, Sequences, FiniteSets, TLC

(***************************************************************************)
(* Bounds of the model.                                                    *)
(***************************************************************************)
\* situational_modifier ranges over -MaxModifier..MaxModifier
MaxModifier == 1
\* the talent list of a candidate has at most MaxTalents entries
MaxTalents == 3
\* a candidate's skill map gives a positive score to at most MaxSelected skills
MaxSelected == 4
\* the bonus calculators are applied to the scores 0..MaxCalcScore
MaxCalcScore == 40
\* the derived-stat functions are applied to the scores
\* -MaxDerivedScore..MaxDerivedScore
MaxDerivedScore == 10

(***************************************************************************)
(* Enumerations: EdgeType and Outcome, by their values.                    *)
(***************************************************************************)
EdgeType == {"none", "advantage", "disadvantage"}

Outcome == {"failure", "near_miss", "success", "strong_success"}

(***************************************************************************)
(* Inputs of perform_check.  Scores below 0 and above 20 are included: the *)
(* resolver takes any integer.                                             *)
(***************************************************************************)
AttributeScoreInputs == {-3, 0, 7, 21}

SkillScoreInputs == {-5, 0, 11, 23}

DifficultyInputs == {-2, 10, 15}

ModifierInputs == (-MaxModifier) .. MaxModifier

(***************************************************************************)
(* roll_d12: random.randint(1, 12), any of the values 1..12.               *)
(***************************************************************************)
D12Faces == 12

\* mutant: the faces are numbered from 0
roll_d12_from_zero == 0 .. (D12Faces - 1)

roll_d12 == 1 .. D12Faces

(***************************************************************************)
(* Bonus calculators: Python's // is floor division, as is \div for a      *)
(* positive divisor.                                                       *)
(***************************************************************************)
\* mutant: the quotient is truncated toward zero
calculate_attribute_bonus_truncated(score) ==
    IF score >= 0 THEN score \div 2 ELSE -((-score) \div 2)

calculate_attribute_bonus(score) == score \div 2

\* mutant: the quotient is rounded to the nearest integer
calculate_skill_rank_rounded(score) == (score + 2) \div 4

calculate_skill_rank(score) == score \div 4

(***************************************************************************)
(* Derived stats, lines 134-155.                                           *)
(***************************************************************************)
\* mutant: Might is counted once
calculate_max_hp_unscaled(might_score) == 8 + might_score

calculate_max_hp(might_score) == 8 + (might_score * 2)

\* mutant: Presence adds nothing to the focus pool
calculate_max_focus_wits_only(wits_score, presence_score) == 4 + wits_score

calculate_max_focus(wits_score, presence_score) == 4 + wits_score + presence_score

calculate_inventory_slots(might_score) == 8 + might_score

max(a, b) == IF a >= b THEN a ELSE b

min(a, b) == IF a <= b THEN a ELSE b

(***************************************************************************)
(* State.                                                                  *)
(*   pc            position of the invocation                              *)
(*   args          the arguments of perform_check                          *)
(*   attribute_bonus, skill_rank, roll1, roll2, dice_rolls, dice_result    *)
(*                 the locals of perform_check (0 / <<>> while unassigned) *)
(*   rolled        what roll_d12 has returned, in order                    *)
(*   result        what perform_check returned                             *)
(*   mock          the values a patched roll_d12 is still to return; <<>>  *)
(*                 when roll_d12 is not patched                            *)
(*   first_result  what the first of two invocations returned              *)
(*   candidate     the arguments of validate_character_creation            *)
(*   validation    how validate_character_creation ended                   *)
(*   given         the two maps and the list the caller gave to            *)
(*                 validate_character_creation, as they are after it ended *)
(*   wrong_type    the entries of the validators' arguments whose value is *)
(*                 not of the annotated type: the names of the attributes  *)
(*                 and of the skills whose score is a str, the indices of  *)
(*                 the talents that are an int                             *)
(*   allocation    how validate_attribute_allocation ended                 *)
(*   request       the request given to create_campaign                    *)
(*   db            the session: the rows added and not yet committed, and  *)
(*                 the rows committed to the database                      *)
(*   creation      the locals of create_campaign and how it ended          *)
(*   reported      the character the router last reported                  *)
(*   invocation    for each concurrent invocation of perform_check: where  *)
(*                 it stands, its arguments, the values roll_d12 returned  *)
(*                 to it and the CheckResult it returned                   *)
(*   frames        the local variables of the concurrent invocations       *)
(*   source        the shared random source: who drew from it, in order    *)
(*   calc_score    the argument of a calculator                            *)
(*   calc_other    the second argument of calculate_max_focus              *)
(*   calc_value    what the calculator returned                            *)
(***************************************************************************)
VARIABLES pc, args, attribute_bonus, skill_rank, roll1, roll2, dice_rolls,
          dice_result, rolled, result, mock, first_result, candidate,
          validation, given, wrong_type, allocation, calc_score, calc_other,
          calc_value, request, db, creation, reported, invocation, frames,
          source

check_vars == <<args, attribute_bonus, skill_rank, roll1, roll2, dice_rolls,
                dice_result, rolled, result>>

replay_vars == <<mock, first_result>>

validator_vars == <<candidate, validation, given, wrong_type, allocation>>

concurrent_vars == <<invocation, frames, source>>

calculator_vars == <<calc_score, calc_other, calc_value>>

campaign_vars == <<request, db, creation, reported>>

\* the state that perform_check leaves alone
outside_check == <<validator_vars, calculator_vars, campaign_vars,
                   concurrent_vars>>

\* the state that validate_character_creation leaves alone
outside_validator == <<check_vars, replay_vars, calculator_vars, campaign_vars,
                       concurrent_vars>>

\* the state that the calculators leave alone
outside_calculator == <<check_vars, replay_vars, validator_vars, campaign_vars,
                        concurrent_vars>>

\* the state that create_campaign and the router leave alone
outside_campaign == <<check_vars, replay_vars, validator_vars, calculator_vars,
                      concurrent_vars>>

\* the state that the concurrent invocations of perform_check leave alone
outside_concurrent == <<pc, check_vars, replay_vars, validator_vars,
                        calculator_vars, campaign_vars>>

vars == <<pc, args, attribute_bonus, skill_rank, roll1, roll2, dice_rolls,
          dice_result, rolled, result, mock, first_result, candidate,
          validation, given, wrong_type, allocation, calc_score, calc_other,
          calc_value, request, db, creation, reported, invocation, frames,
          source>>

NoArgs == [attribute_score |-> 0, skill_score |-> 0, difficulty |-> 0,
           edge |-> "none", situational_modifier |-> 0]

NoResult == [kind |-> "none"]

NoCandidate == [kind |-> "none"]

NoValidation == [kind |-> "none"]

NoRequest == [kind |-> "none"]

NoRow == [table |-> "none"]

\* a session with nothing added and a database with neither row
EmptyDb == [pending |-> [campaign |-> NoRow, character |-> NoRow],
            persisted |-> [campaign |-> NoRow, character |-> NoRow]]

NoCreation == [kind |-> "none"]

\* the request-handling threads that call perform_check at the same time
Invocations == {1, 2}

NoInvocation == [pc |-> "idle", args |-> NoArgs, drawn |-> <<>>, result |-> NoResult]

NoFrame == [attribute_bonus |-> 0, skill_rank |-> 0, roll1 |-> 0, roll2 |-> 0,
            dice_rolls |-> <<>>, dice_result |-> 0]

InitConcurrent ==
    /\ invocation = [i \in Invocations |-> NoInvocation]
    /\ frames = [i \in Invocations |-> NoFrame]
    /\ source = <<>>

InitCampaign ==
    /\ request = NoRequest
    /\ db = EmptyDb
    /\ creation = NoCreation
    /\ reported = NoRow

\* every value is of the annotated type
WellTyped == [attributes |-> {}, skills |-> {}, talents |-> {}]

(***************************************************************************)
(* perform_check, lines 105-129: the total, the margin, the outcome tier   *)
(* and the CheckResult built from them.                                    *)
(***************************************************************************)
\* mutant: the situational modifier is left out of the total
check_total_without_modifier(die, bonus, rank, modifier) == die + bonus + rank

check_total(die, bonus, rank, modifier) == die + bonus + rank + modifier

\* mutant: the margin is taken the other way round
check_margin_reversed(total, difficulty) == difficulty - total

check_margin(total, difficulty) == total - difficulty

\* mutant: the NEAR_MISS threshold is exclusive
determine_outcome_near_miss_exclusive(margin) ==
    IF margin >= 5 THEN "strong_success"
    ELSE IF margin >= 0 THEN "success"
    ELSE IF margin > -2 THEN "near_miss"
    ELSE "failure"

determine_outcome(margin) ==
    IF margin >= 5 THEN "strong_success"
    ELSE IF margin >= 0 THEN "success"
    ELSE IF margin >= -2 THEN "near_miss"
    ELSE "failure"

\* mutant: dice_rolls is a list of the module that is never emptied, so it
\* holds the rolls of earlier invocations as well
CheckResultSharedRolls(a, bonus, rank, rolls, die) ==
    LET total == check_total(die, bonus, rank, a.situational_modifier)
        margin == check_margin(total, a.difficulty)
    IN  [kind |-> "CheckResult",
         total |-> total,
         difficulty |-> a.difficulty,
         margin |-> margin,
         outcome |-> determine_outcome(margin),
         dice_rolls |-> rolled,
         attribute_bonus |-> bonus,
         skill_rank |-> rank,
         situational_modifier |-> a.situational_modifier,
         edge_type |-> a.edge]

CheckResult(a, bonus, rank, rolls, die) ==
    LET total == check_total(die, bonus, rank, a.situational_modifier)
        margin == check_margin(total, a.difficulty)
    IN  [kind |-> "CheckResult",
         total |-> total,
         difficulty |-> a.difficulty,
         margin |-> margin,
         outcome |-> determine_outcome(margin),
         dice_rolls |-> rolls,
         attribute_bonus |-> bonus,
         skill_rank |-> rank,
         situational_modifier |-> a.situational_modifier,
         edge_type |-> a.edge]

CheckArgs ==
    [attribute_score : AttributeScoreInputs, skill_score : SkillScoreInputs,
     difficulty : DifficultyInputs, edge : EdgeType,
     situational_modifier : ModifierInputs]

(***************************************************************************)
(* perform_check, lines 85-90: entry, the two bonuses, the empty roll list.*)
(***************************************************************************)
\* mutant: scores outside 0..20 are refused at entry
PerformCheckEnterInRangeOnly(a) ==
    /\ a.attribute_score \in 0..20
    /\ a.skill_score \in 0..20
    /\ pc' = "roll1"
    /\ args' = a
    /\ attribute_bonus' = calculate_attribute_bonus(a.attribute_score)
    /\ skill_rank' = calculate_skill_rank(a.skill_score)
    /\ dice_rolls' = <<>>
    /\ UNCHANGED <<roll1, roll2, dice_result, rolled, result>>
    /\ UNCHANGED outside_check

PerformCheckEnter(a) ==
    /\ pc' = "roll1"
    /\ args' = a
    /\ attribute_bonus' = calculate_attribute_bonus(a.attribute_score)
    /\ skill_rank' = calculate_skill_rank(a.skill_score)
    /\ dice_rolls' = <<>>
    /\ UNCHANGED <<roll1, roll2, dice_result, rolled, result>>
    /\ UNCHANGED outside_check

PerformCheckCall ==
    /\ pc = "idle"
    /\ \E a \in CheckArgs : PerformCheckEnter(a)
    /\ UNCHANGED replay_vars

\* a second invocation with the arguments of the first, roll_d12 patched to
\* return what it returned to the first
PerformCheckAgain ==
    /\ pc = "returned"
    /\ first_result = NoResult
    /\ first_result' = result
    /\ mock' = rolled
    /\ PerformCheckEnter(args)

\* roll_d12 as perform_check calls it: patched, the next value of the mock
called_roll_d12 == IF mock = <<>> THEN roll_d12 ELSE {Head(mock)}

mock_after_call == IF mock = <<>> THEN mock ELSE Tail(mock)

(***************************************************************************)
(* perform_check, lines 92, 97 and 102-103: the first call of roll_d12.    *)
(* Under NONE it is the dice result and the only recorded roll.            *)
(***************************************************************************)
\* mutant: every edge mode rolls twice
rolls_twice_always(edge) == edge \in EdgeType

\* lines 91, 96, 101: the branches that call roll_d12 twice
rolls_twice(edge) == edge = "advantage" \/ edge = "disadvantage"

\* a second invocation under another edge mode, the other arguments those of
\* the first, roll_d12 patched to return what it returned to the first (the
\* first of the two values when the second invocation rolls once)
PerformCheckOtherEdge ==
    /\ pc = "returned"
    /\ first_result = NoResult
    /\ rolls_twice(args.edge)
    /\ first_result' = result
    /\ \E e \in EdgeType \ {args.edge} :
          /\ mock' = IF rolls_twice(e) THEN rolled ELSE <<rolled[1]>>
          /\ PerformCheckEnter([args EXCEPT !.edge = e])

PerformCheckRoll1 ==
    /\ pc = "roll1"
    /\ \E r \in called_roll_d12 :
          /\ rolled' = Append(rolled, r)
          /\ IF rolls_twice(args.edge)
               THEN /\ roll1' = r
                    /\ pc' = "roll2"
                    /\ UNCHANGED <<dice_result, dice_rolls>>
               ELSE /\ dice_result' = r
                    /\ dice_rolls' = <<r>>
                    /\ pc' = "total"
                    /\ UNCHANGED roll1
    /\ mock' = mock_after_call
    /\ UNCHANGED <<args, attribute_bonus, skill_rank, roll2, result, first_result>>
    /\ UNCHANGED outside_check

(***************************************************************************)
(* perform_check, lines 93-95 and 98-100: the second call of roll_d12, the *)
(* recorded pair and the die kept.                                         *)
(***************************************************************************)
\* mutant: ADVANTAGE keeps the lower die and DISADVANTAGE the higher
KeptDieSwapped(edge, r1, r2) == IF edge = "advantage" THEN min(r1, r2) ELSE max(r1, r2)

KeptDie(edge, r1, r2) == IF edge = "advantage" THEN max(r1, r2) ELSE min(r1, r2)

\* mutant: the pair is recorded with the kept die first
RecordedRollsKeptFirst(r1, r2) == IF r1 >= r2 THEN <<r1, r2>> ELSE <<r2, r1>>

RecordedRolls(r1, r2) == <<r1, r2>>

PerformCheckRoll2 ==
    /\ pc = "roll2"
    /\ pc' = "total"
    /\ \E r \in called_roll_d12 :
          /\ rolled' = Append(rolled, r)
          /\ roll2' = r
          /\ dice_rolls' = RecordedRolls(roll1, r)
          /\ dice_result' = KeptDie(args.edge, roll1, r)
    /\ mock' = mock_after_call
    /\ UNCHANGED <<args, attribute_bonus, skill_rank, roll1, result, first_result>>
    /\ UNCHANGED outside_check

(***************************************************************************)
(* perform_check, lines 105-129: the result is built and returned.         *)
(***************************************************************************)
PerformCheckReturn ==
    /\ pc = "total"
    /\ result' = CheckResult(args, attribute_bonus, skill_rank, dice_rolls, dice_result)
    /\ pc' = "returned"
    /\ UNCHANGED <<args, attribute_bonus, skill_rank, roll1, roll2, dice_rolls,
                   dice_result, rolled, replay_vars>>
    /\ UNCHANGED outside_check

(***************************************************************************)
(* CheckResult, lines 26-37: a dataclass declared without frozen=True, so  *)
(* its fields can be assigned and its dice_rolls list changed in place.    *)
(***************************************************************************)
frozen == FALSE

\* the values a caller assigns to the total of a CheckResult
AssignedTotals == {0, 99}

\* result.total = v, once per result
CheckResultSetTotal ==
    /\ pc = "returned"
    /\ ~frozen
    /\ result = CheckResult(args, attribute_bonus, skill_rank, dice_rolls, dice_result)
    /\ \E v \in AssignedTotals : result' = [result EXCEPT !.total = v]
    /\ UNCHANGED <<pc, args, attribute_bonus, skill_rank, roll1, roll2, dice_rolls,
                   dice_result, rolled, replay_vars>>
    /\ UNCHANGED outside_check

\* result.dice_rolls.append(r), once per result
CheckResultAppendRoll ==
    /\ pc = "returned"
    /\ result = CheckResult(args, attribute_bonus, skill_rank, dice_rolls, dice_result)
    /\ \E r \in roll_d12 : result' = [result EXCEPT !.dice_rolls = Append(@, r)]
    /\ UNCHANGED <<pc, args, attribute_bonus, skill_rank, roll1, roll2, dice_rolls,
                   dice_result, rolled, replay_vars>>
    /\ UNCHANGED outside_check

(***************************************************************************)
(* validate_character_creation.  A ValidationError is the record of its    *)
(* message: the f-string's template, the name and the number it formats.   *)
(***************************************************************************)
required_attrs == <<"might", "agility", "wits", "presence">>

required_skills == <<"Blade", "Bow", "Brawl", "Sneak", "Survival",
                     "Lore", "Craft", "Influence", "Insight", "Channel">>

ValidationError(template, name, got) ==
    [ended |-> "raise", exception |-> "ValidationError",
     template |-> template, name |-> name, got |-> got]

\* what Python raises when a str is compared or added to an int (lines 193,
\* 210, 214, 241) and when "in" is applied to an int (line 225)
TypeError(name) ==
    [ended |-> "raise", exception |-> "TypeError",
     template |-> "", name |-> name, got |-> 0]

ReturnTrue ==
    [ended |-> "return", exception |-> "", template |-> "", name |-> "", got |-> 0]

\* a loop that ran to its end without raising
LoopDone ==
    [ended |-> "pass", exception |-> "", template |-> "", name |-> "", got |-> 0]

\* mutant: only the upper end of the range is checked
score_in_range_no_lower(score) == score <= 20

\* lines 193 and 210: not 0 <= score <= 20
score_in_range(score) == 0 <= score /\ score <= 20

\* lines 188-194: the loop over required_attrs, from its i-th name on
RECURSIVE validate_attributes(_, _)
validate_attributes(attributes, i) ==
    IF i > Len(required_attrs) THEN LoopDone
    ELSE LET attr == required_attrs[i] IN
         IF attr \notin DOMAIN attributes
           THEN ValidationError("Missing attribute: {attr}", attr, 0)
           ELSE LET score == attributes[attr] IN
                IF attr \in wrong_type.attributes THEN TypeError(attr)
                ELSE IF ~score_in_range(score)
                  THEN ValidationError("Attribute {attr} must be 0-20, got {score}",
                                       attr, score)
                  ELSE validate_attributes(attributes, i + 1)

\* line 197: sum(attributes[attr] for attr in required_attrs), from the i-th on
RECURSIVE sum_attributes(_, _)
sum_attributes(attributes, i) ==
    IF i > Len(required_attrs) THEN 0
    ELSE attributes[required_attrs[i]] + sum_attributes(attributes, i + 1)

\* mutant: the total leaves out the first attribute
attr_total_skips_first(attributes) == sum_attributes(attributes, 2)

attr_total(attributes) == sum_attributes(attributes, 1)

\* lines 198-199
validate_attr_total(attributes) ==
    IF attr_total(attributes) # 15
      THEN ValidationError("Attributes must sum to 15, got {attr_total}", "",
                           attr_total(attributes))
      ELSE LoopDone

\* lines 205-211: the loop over required_skills, from its i-th name on
RECURSIVE validate_skills(_, _)
validate_skills(skills, i) ==
    IF i > Len(required_skills) THEN LoopDone
    ELSE LET skill == required_skills[i] IN
         IF skill \notin DOMAIN skills
           THEN ValidationError("Missing skill: {skill}", skill, 0)
           ELSE LET score == skills[skill] IN
                IF skill \in wrong_type.skills THEN TypeError(skill)
                ELSE IF ~score_in_range(score)
                  THEN ValidationError("Skill {skill} must be 0-20, got {score}",
                                       skill, score)
                  ELSE validate_skills(skills, i + 1)

\* line 214: [skill for skill, score in skills.items() if score > 0]
\* mutant: only the canonical skills are counted
selected_skills_canonical(skills) ==
    {skill \in DOMAIN skills :
        /\ \E i \in 1..Len(required_skills) : required_skills[i] = skill
        /\ skills[skill] > 0}

selected_skills_nonzero(skills) == {skill \in DOMAIN skills : skills[skill] # 0}

selected_skills(skills) == {skill \in DOMAIN skills : skills[skill] > 0}

\* lines 214-216; score > 0 is evaluated for every entry of the map
validate_selected_skills(skills) ==
    IF \E skill \in DOMAIN skills : skill \in wrong_type.skills THEN TypeError("")
    ELSE IF Cardinality(selected_skills(skills)) # 3
      THEN ValidationError("Must select exactly 3 starting skills, got {len(selected_skills)}",
                           "", Cardinality(selected_skills(skills)))
      ELSE LoopDone

\* lines 219-220
validate_talent_count(talents) ==
    IF Len(talents) # 2
      THEN ValidationError("Must select exactly 2 starting talents, got {len(talents)}",
                           "", Len(talents))
      ELSE LoopDone

\* lines 224-226: the loop over talents, from the i-th entry on
RECURSIVE validate_talent_names(_, _)
validate_talent_names(talents, i) ==
    IF i > Len(talents) THEN LoopDone
    ELSE IF i \in wrong_type.talents THEN TypeError("")
    ELSE IF "name" \notin DOMAIN talents[i]
           THEN ValidationError("Talent missing 'name' field", "", 0)
           ELSE validate_talent_names(talents, i + 1)

\* how an invocation ended, with the checks it ran, in the order it ran them
Ended(how, steps) ==
    [kind |-> "validation", ended |-> how.ended, exception |-> how.exception,
     template |-> how.template, name |-> how.name, got |-> how.got,
     steps |-> steps]

\* mutant: the talent count is checked before the selected skills are counted
check_order_talents_before_selection ==
    <<"attributes", "attr_total", "skills", "talent_count", "selected_skills",
      "talent_names">>

\* mutant: the talent names are checked before the talents are counted
check_order_names_before_count ==
    <<"attributes", "attr_total", "skills", "selected_skills", "talent_names",
      "talent_count">>

\* mutant: the selected skills are counted before the skills are checked
check_order_selection_before_skills ==
    <<"attributes", "attr_total", "selected_skills", "skills", "talent_count",
      "talent_names">>

\* mutant: the skills are checked before the attribute total
check_order_skills_before_total ==
    <<"attributes", "skills", "attr_total", "selected_skills", "talent_count",
      "talent_names">>

\* lines 186-228: the checks of validate_character_creation in the order of its
\* statements
check_order ==
    <<"attributes", "attr_total", "skills", "selected_skills", "talent_count",
      "talent_names">>

run_check(check, attributes, skills, talents) ==
    CASE check = "attributes" -> validate_attributes(attributes, 1)
      [] check = "attr_total" -> validate_attr_total(attributes)
      [] check = "skills" -> validate_skills(skills, 1)
      [] check = "selected_skills" -> validate_selected_skills(skills)
      [] check = "talent_count" -> validate_talent_count(talents)
      [] check = "talent_names" -> validate_talent_names(talents, 1)

\* the checks from the i-th on: the first that raises ends the invocation, and
\* line 228 returns True after the last
RECURSIVE run_checks(_, _, _, _)
run_checks(i, attributes, skills, talents) ==
    IF i > Len(check_order) THEN Ended(ReturnTrue, check_order)
    ELSE LET how == run_check(check_order[i], attributes, skills, talents) IN
         IF how.ended = "raise" THEN Ended(how, SubSeq(check_order, 1, i))
         ELSE run_checks(i + 1, attributes, skills, talents)

\* mutant: a talent whose requirements name another path than path_id is refused
validate_character_creation_path_checked(attributes, skills, talents, path_id) ==
    IF \E i \in 1..Len(talents) : talents[i].requirements # path_id
      THEN Ended(ValidationError("Talent not available to path", "", 0), <<"talent_path">>)
      ELSE run_checks(1, attributes, skills, talents)

\* mutant: the skills that were not selected are deleted from the map
arguments_after_validation_pruned(attributes, skills, talents) ==
    [attributes |-> attributes,
     skills |-> [k \in {x \in DOMAIN skills : skills[x] # 0} |-> skills[k]],
     talents |-> talents]

\* lines 186-228 assign to no item of attributes, skills or talents and call
\* none of their mutating methods: the caller's objects are as they were
arguments_after_validation(attributes, skills, talents) ==
    [attributes |-> attributes, skills |-> skills, talents |-> talents]

\* lines 165-228; path_id is not read
validate_character_creation(attributes, skills, talents, path_id) ==
    run_checks(1, attributes, skills, talents)

(***************************************************************************)
(* validate_attribute_allocation, lines 231-252.                           *)
(***************************************************************************)
\* line 238
required == <<"might", "agility", "wits", "presence">>

AllocationReturn(value) ==
    [kind |-> "allocation", ended |-> "return", exception |-> "", value |-> value]

AllocationRaise(exception) ==
    [kind |-> "allocation", ended |-> "raise", exception |-> exception,
     value |-> FALSE]

\* line 242: sum(attributes[attr] for attr in required), from the i-th on
RECURSIVE sum_required(_, _)
sum_required(attributes, i) ==
    IF i > Len(required) THEN 0
    ELSE attributes[required[i]] + sum_required(attributes, i + 1)

\* mutant: the range of the scores is not checked
validate_attribute_allocation_no_range(attributes) ==
    IF ~(\A i \in 1..Len(required) : required[i] \in DOMAIN attributes)
      THEN AllocationReturn(FALSE)
    ELSE IF \E i \in 1..Len(required) : required[i] \in wrong_type.attributes
      THEN AllocationRaise("TypeError")
    ELSE IF sum_required(attributes, 1) # 15
      THEN AllocationReturn(FALSE)
    ELSE AllocationReturn(TRUE)

\* lines 238-250, the body of the try statement; the sum of line 242 adds a
\* str to an int when a required attribute holds a str
validate_attribute_allocation_try(attributes) ==
    IF ~(\A i \in 1..Len(required) : required[i] \in DOMAIN attributes)
      THEN AllocationReturn(FALSE)
    ELSE IF \E i \in 1..Len(required) : required[i] \in wrong_type.attributes
      THEN AllocationRaise("TypeError")
    ELSE IF sum_required(attributes, 1) # 15
      THEN AllocationReturn(FALSE)
    ELSE IF \E i \in 1..Len(required) : ~score_in_range(attributes[required[i]])
      THEN AllocationReturn(FALSE)
    ELSE AllocationReturn(TRUE)

\* mutant: the try statement has no except clause
validate_attribute_allocation_no_except(attributes) ==
    validate_attribute_allocation_try(attributes)

\* lines 237-252: whatever the body raises is caught and False returned
validate_attribute_allocation(attributes) ==
    LET how == validate_attribute_allocation_try(attributes) IN
    IF how.ended = "raise" THEN AllocationReturn(FALSE) ELSE how

(***************************************************************************)
(* Candidates given to validate_character_creation.                        *)
(***************************************************************************)
Range(f) == {f[x] : x \in DOMAIN f}

\* the scores an attribute takes when it is present
AttributeInputs(attr) ==
    CASE attr = "might" -> {0, 6, 20, 22}
      [] attr = "agility" -> {-1, 5}
      [] attr = "wits" -> {5, 21}
      [] attr = "presence" -> {-1, 5, 6}

AttributeMaps ==
    UNION {{f \in [present -> UNION {AttributeInputs(a) : a \in present}] :
               \A a \in present : f[a] \in AttributeInputs(a)} :
           present \in SUBSET Range(required_attrs)}

\* the order in which a candidate picks its starting skills
selection_order == <<"Blade", "Sneak", "Insight", "Bow", "Survival",
                     "Lore", "Craft", "Influence", "Channel", "Brawl">>

SelectedScore(skill) == IF skill = "Blade" THEN 20 ELSE 4

NoEntries == [k \in {} |-> 0]

\* what a candidate's skill map leaves out, and what it holds instead of or
\* beside the selection ("Herbalism" and "blade" are no canonical skills)
SkillOverrides ==
    { [drop |-> {}, put |-> NoEntries],
      [drop |-> {"Bow"}, put |-> NoEntries],
      [drop |-> {}, put |-> ("Bow" :> -1)],
      [drop |-> {}, put |-> ("Channel" :> 21)],
      [drop |-> {"Channel"}, put |-> ("Blade" :> 21)],
      [drop |-> {"Blade"}, put |-> ("Channel" :> -1)],
      [drop |-> {"Blade"}, put |-> ("blade" :> 20)],
      [drop |-> {}, put |-> ("Herbalism" :> 25)],
      [drop |-> {}, put |-> ("Herbalism" :> -5)] }

SkillMap(n, o) ==
    [k \in (Range(required_skills) \ o.drop) \cup DOMAIN o.put |->
        IF k \in DOMAIN o.put THEN o.put[k]
        ELSE IF \E i \in 1..n : selection_order[i] = k THEN SelectedScore(k)
        ELSE 0]

SkillMaps == {SkillMap(n, o) : n \in (MaxSelected - 2) .. MaxSelected, o \in SkillOverrides}

TalentInputs == {[name |-> "Riposte", requirements |-> "blade"],
                 [requirements |-> "blade"]}

TalentLists == UNION {[1..n -> TalentInputs] : n \in 0..MaxTalents}

PathInputs == {"blade", "mystic"}

(***************************************************************************)
(* One invocation of validate_character_creation.                          *)
(***************************************************************************)
ValidateCharacterCreation ==
    /\ pc = "idle"
    /\ pc' = "validated"
    /\ \E a \in AttributeMaps, s \in SkillMaps, t \in TalentLists, p \in PathInputs :
          /\ candidate' = [attributes |-> a, skills |-> s, talents |-> t, path_id |-> p]
          /\ validation' = validate_character_creation(a, s, t, p)
          /\ given' = arguments_after_validation(a, s, t)
    /\ UNCHANGED <<wrong_type, allocation, outside_validator>>

(***************************************************************************)
(* The validators on arguments of which wrong_type says which values are   *)
(* of another type than annotated.                                         *)
(***************************************************************************)
WrongTypes ==
    [attributes : {{}, {"might"}, {"presence"}},
     skills : {{}, {"Channel"}, {"Herbalism"}},
     talents : {{}, {1}, {2}}]

UntypedAttributeMaps ==
    {a \in AttributeMaps : /\ {"agility", "wits"} \subseteq DOMAIN a
                           /\ a["agility"] = 5
                           /\ a["wits"] = 5}

UntypedSkillMaps == {SkillMap(3, o) : o \in SkillOverrides}

ValidateUntypedCandidate ==
    /\ pc = "idle"
    /\ pc' = "validated"
    /\ \E a \in UntypedAttributeMaps, s \in UntypedSkillMaps, t \in TalentLists,
          p \in PathInputs :
          /\ candidate' = [attributes |-> a, skills |-> s, talents |-> t, path_id |-> p]
          /\ validation' = validate_character_creation(a, s, t, p)
          /\ given' = arguments_after_validation(a, s, t)
    /\ UNCHANGED <<wrong_type, allocation, outside_validator>>

\* both validators applied to one attribute map
ValidateAttributesBothWays ==
    /\ pc = "idle"
    /\ pc' = "compared"
    /\ \E a \in AttributeMaps, s \in UntypedSkillMaps, t \in TalentLists,
          p \in PathInputs :
          /\ candidate' = [attributes |-> a, skills |-> s, talents |-> t, path_id |-> p]
          /\ validation' = validate_character_creation(a, s, t, p)
          /\ given' = arguments_after_validation(a, s, t)
          /\ allocation' = validate_attribute_allocation(a)
    /\ UNCHANGED <<wrong_type, outside_validator>>

ValidateAttributeAllocation ==
    /\ pc = "idle"
    /\ pc' = "allocation_returned"
    /\ \E a \in AttributeMaps :
          /\ candidate' = [attributes |-> a]
          /\ allocation' = validate_attribute_allocation(a)
    /\ UNCHANGED <<wrong_type, validation, given, outside_validator>>

(***************************************************************************)
(* calculate_attribute_bonus and calculate_skill_rank applied to a score.  *)
(***************************************************************************)
CalcScores == 0 .. MaxCalcScore

CalculateAttributeBonus ==
    /\ pc = "idle"
    /\ pc' = "bonus_calculated"
    /\ calc_value' = calculate_attribute_bonus(calc_score)
    /\ UNCHANGED <<calc_score, calc_other, outside_calculator>>

CalculateSkillRank ==
    /\ pc = "idle"
    /\ pc' = "rank_calculated"
    /\ calc_value' = calculate_skill_rank(calc_score)
    /\ UNCHANGED <<calc_score, calc_other, outside_calculator>>

(***************************************************************************)
(* Campaign templates (app/services/campaign_template_service.py).  A      *)
(* template is the JSON document load_campaign_template finds for an id:   *)
(* whether there is one, the top-level fields it has, and whether its      *)
(* opening_scene is a mapping.                                             *)
(***************************************************************************)
required_fields == {"template_id", "name", "opening_scene", "starting_location"}

TemplateInputs ==
    { [template_id |-> "unknown", found |-> FALSE, fields |-> {},
       opening_scene |-> "none"],
      [template_id |-> "partial", found |-> TRUE, fields |-> {"template_id", "name"},
       opening_scene |-> "none"],
      [template_id |-> "broken_kingdom", found |-> TRUE, fields |-> required_fields,
       opening_scene |-> "mapping"],
      [template_id |-> "draft", found |-> TRUE, fields |-> required_fields,
       opening_scene |-> "text"] }

\* lines 123-138
validate_template(template) ==
    template.found /\ required_fields \subseteq template.fields

\* lines 34-59: ValueError without a template; opening_scene.get fails on an
\* opening_scene that is no mapping
get_opening_narration(template) ==
    IF ~template.found THEN [ended |-> "raise", exception |-> "ValueError"]
    ELSE IF template.opening_scene # "mapping"
      THEN [ended |-> "raise", exception |-> "AttributeError"]
    ELSE [ended |-> "return", exception |-> ""]

(***************************************************************************)
(* create_campaign (app/services/campaign_service.py, lines 33-153).       *)
(***************************************************************************)
CreationAttributeInputs ==
    [might : {0, 3, 6, 7}, agility : {4, 6}, wits : {3, 4}, presence : {2, 3}]

CreationSkillInputs ==
    { [sneak |-> 2, survival |-> 1, insight |-> 1, blade |-> 0],
      [sneak |-> 2, survival |-> 1, insight |-> 1, blade |-> 1],
      [sneak |-> 2, survival |-> 0, insight |-> 1, blade |-> 0] }

TalentIdInputs == {<<"shadow_step">>, <<"shadow_step", "quick_hands">>}

Requests ==
    [template : TemplateInputs, attributes : CreationAttributeInputs,
     skills : CreationSkillInputs, talent_ids : TalentIdInputs]

\* the locals of an invocation that has not ended
Creating(max_hp, max_focus, inventory_slots) ==
    [kind |-> "creation", ended |-> "running", exception |-> "", message |-> "",
     max_hp |-> max_hp, max_focus |-> max_focus,
     inventory_slots |-> inventory_slots, caught |-> ""]

CampaignCreationError(message) ==
    [kind |-> "creation", ended |-> "raise", exception |-> "CampaignCreationError",
     message |-> message, max_hp |-> 0, max_focus |-> 0, inventory_slots |-> 0,
     caught |-> ""]

\* line 68
attr_sum(attributes) ==
    attributes.might + attributes.agility + attributes.wits + attributes.presence

\* line 74
creation_selected_skills(skills) == {k \in DOMAIN skills : skills[k] > 0}

\* lines 90-100
Campaign(r) ==
    [table |-> "campaign", template_id |-> r.template.template_id,
     current_scene_number |-> 1, chapter_number |-> 1, total_advances |-> 0]

\* lines 105-126
Character(r, max_hp, max_focus) ==
    [table |-> "character",
     might_score |-> r.attributes.might,
     agility_score |-> r.attributes.agility,
     wits_score |-> r.attributes.wits,
     presence_score |-> r.attributes.presence,
     current_hp |-> max_hp,
     max_hp |-> max_hp,
     current_focus |-> max_focus,
     max_focus |-> max_focus,
     supplies |-> 3,
     skills |-> r.skills,
     talents |-> <<>>]

\* lines 52-85: the template and the character are validated and the derived
\* stats calculated
CreateCampaignCall ==
    /\ pc = "idle"
    /\ \E r \in Requests :
          /\ request' = r
          /\ IF ~validate_template(r.template)
               THEN /\ creation' = CampaignCreationError("Invalid template_id")
                    /\ pc' = "cc_raised"
             ELSE IF attr_sum(r.attributes) # 15
               THEN /\ creation' = CampaignCreationError("Attributes must sum to 15")
                    /\ pc' = "cc_raised"
             ELSE IF Cardinality(creation_selected_skills(r.skills)) # 3
               THEN /\ creation' = CampaignCreationError("Must select exactly 3 skills")
                    /\ pc' = "cc_raised"
             ELSE IF Len(r.talent_ids) # 2
               THEN /\ creation' = CampaignCreationError("Must select exactly 2 talents")
                    /\ pc' = "cc_raised"
             ELSE /\ creation' = Creating(calculate_max_hp(r.attributes.might),
                                          calculate_max_focus(r.attributes.wits,
                                                              r.attributes.presence),
                                          calculate_inventory_slots(r.attributes.might))
                  /\ pc' = "cc_flush"
    /\ UNCHANGED <<db, reported, outside_campaign>>

\* lines 89-102: the campaign is added and flushed; the flush fails or not
CreateCampaignFlush ==
    /\ pc = "cc_flush"
    /\ db' = [db EXCEPT !.pending.campaign = Campaign(request)]
    /\ \/ pc' = "cc_commit" /\ UNCHANGED creation
       \/ /\ pc' = "cc_except"
          /\ creation' = [creation EXCEPT !.caught = "SQLAlchemyError"]
    /\ UNCHANGED <<request, reported, outside_campaign>>

\* lines 105-130: the character is added and the transaction committed: both
\* rows reach the database, or the commit fails and neither does
CreateCampaignCommit ==
    /\ pc = "cc_commit"
    /\ LET added == [db.pending EXCEPT
                        !.character = Character(request, creation.max_hp,
                                                creation.max_focus)]
       IN  \/ /\ db' = [pending |-> EmptyDb.pending, persisted |-> added]
              /\ pc' = "cc_refresh"
              /\ UNCHANGED creation
           \/ /\ db' = [db EXCEPT !.pending = added]
              /\ pc' = "cc_except"
              /\ creation' = [creation EXCEPT !.caught = "SQLAlchemyError"]
    /\ UNCHANGED <<request, reported, outside_campaign>>

\* lines 131-132: the two rows are read back; the read fails or not
CreateCampaignRefresh ==
    /\ pc = "cc_refresh"
    /\ \/ pc' = "cc_respond" /\ UNCHANGED creation
       \/ /\ pc' = "cc_except"
          /\ creation' = [creation EXCEPT !.caught = "SQLAlchemyError"]
    /\ UNCHANGED <<request, db, reported, outside_campaign>>

\* lines 134-146: the opening narration, the suggested actions, the response
CreateCampaignRespond ==
    /\ pc = "cc_respond"
    /\ LET narration == get_opening_narration(request.template) IN
       IF narration.ended = "raise"
         THEN /\ pc' = "cc_except"
              /\ creation' = [creation EXCEPT !.caught = narration.exception]
         ELSE /\ pc' = "cc_returned"
              /\ creation' = [creation EXCEPT !.ended = "return"]
    /\ UNCHANGED <<request, db, reported, outside_campaign>>

\* lines 148-153: the session is rolled back, which discards what was added
\* and not committed, and CampaignCreationError is raised
CreateCampaignExcept ==
    /\ pc = "cc_except"
    /\ db' = [db EXCEPT !.pending = EmptyDb.pending]
    /\ creation' = CampaignCreationError("Failed to create campaign")
    /\ pc' = "cc_raised"
    /\ UNCHANGED <<request, reported, outside_campaign>>

(***************************************************************************)
(* Character.inventory_slots (app/models/character.py, lines 88-91) and    *)
(* the character the router reports (app/routers/campaign.py, lines        *)
(* 107-132).                                                               *)
(***************************************************************************)
Character_inventory_slots(character) == character.might_score \div 2

CharacterResponse(char) ==
    [table |-> "character_response",
     might_score |-> char.might_score,
     agility_score |-> char.agility_score,
     wits_score |-> char.wits_score,
     presence_score |-> char.presence_score,
     current_hp |-> char.current_hp,
     max_hp |-> char.max_hp,
     current_focus |-> char.current_focus,
     max_focus |-> char.max_focus,
     supplies |-> char.supplies,
     inventory_slots |-> Character_inventory_slots(char),
     skills |-> char.skills,
     talents |-> char.talents]

\* the campaign is read after create_campaign has ended; without a campaign
\* row the router answers 404 and reports no character
GetCampaignById ==
    /\ pc \in {"cc_returned", "cc_raised"}
    /\ pc' = "cc_reported"
    /\ reported' = IF db.persisted.campaign # NoRow /\ db.persisted.character # NoRow
                     THEN CharacterResponse(db.persisted.character)
                     ELSE NoRow
    /\ UNCHANGED <<request, db, creation, outside_campaign>>

(***************************************************************************)
(* The derived-stat functions applied to scores.                           *)
(***************************************************************************)
DerivedScores == (-MaxDerivedScore) .. MaxDerivedScore

CalculateMaxHp ==
    /\ pc = "idle"
    /\ pc' = "max_hp_calculated"
    /\ calc_value' = calculate_max_hp(calc_score)
    /\ UNCHANGED <<calc_score, calc_other, outside_calculator>>

CalculateMaxFocus ==
    /\ pc = "idle"
    /\ pc' = "max_focus_calculated"
    /\ \E presence_score \in DerivedScores :
          /\ calc_other' = presence_score
          /\ calc_value' = calculate_max_focus(calc_score, presence_score)
    /\ UNCHANGED <<calc_score, outside_calculator>>

CalculateInventorySlots ==
    /\ pc = "idle"
    /\ pc' = "inventory_slots_calculated"
    /\ calc_value' = calculate_inventory_slots(calc_score)
    /\ UNCHANGED <<calc_score, calc_other, outside_calculator>>

Init ==
    /\ pc = "idle"
    /\ args = NoArgs
    /\ attribute_bonus = 0
    /\ skill_rank = 0
    /\ roll1 = 0
    /\ roll2 = 0
    /\ dice_rolls = <<>>
    /\ dice_result = 0
    /\ rolled = <<>>
    /\ result = NoResult
    /\ mock = <<>>
    /\ first_result = NoResult
    /\ candidate = NoCandidate
    /\ validation = NoValidation
    /\ given = NoCandidate
    /\ wrong_type = WellTyped
    /\ allocation = NoValidation
    /\ calc_score = 0
    /\ calc_other = 0
    /\ calc_value = 0
    /\ InitCampaign
    /\ InitConcurrent

Next ==
    \/ PerformCheckCall
    \/ PerformCheckRoll1
    \/ PerformCheckRoll2
    \/ PerformCheckReturn
    \/ ValidateCharacterCreation

Spec == Init /\ [][Next]_vars

(***************************************************************************)
(* Two invocations of perform_check with the same arguments and die rolls. *)
(***************************************************************************)
NextReplay ==
    \/ PerformCheckCall
    \/ PerformCheckRoll1
    \/ PerformCheckRoll2
    \/ PerformCheckReturn
    \/ PerformCheckAgain

SpecReplay == Init /\ [][NextReplay]_vars

(***************************************************************************)
(* Two invocations of perform_check that differ in the edge mode only.     *)
(***************************************************************************)
NextEdges ==
    \/ PerformCheckCall
    \/ PerformCheckRoll1
    \/ PerformCheckRoll2
    \/ PerformCheckReturn
    \/ PerformCheckOtherEdge

SpecEdges == Init /\ [][NextEdges]_vars

(***************************************************************************)
(* One invocation of perform_check and what its caller can do to the       *)
(* CheckResult.                                                            *)
(***************************************************************************)
NextMutable ==
    \/ PerformCheckCall
    \/ PerformCheckRoll1
    \/ PerformCheckRoll2
    \/ PerformCheckReturn
    \/ CheckResultSetTotal
    \/ CheckResultAppendRoll

SpecMutable == Init /\ [][NextMutable]_vars

(***************************************************************************)
(* The bonus calculators on their own: the score is any of CalcScores.     *)
(***************************************************************************)
InitCalc ==
    /\ pc = "idle"
    /\ args = NoArgs
    /\ attribute_bonus = 0
    /\ skill_rank = 0
    /\ roll1 = 0
    /\ roll2 = 0
    /\ dice_rolls = <<>>
    /\ dice_result = 0
    /\ rolled = <<>>
    /\ result = NoResult
    /\ mock = <<>>
    /\ first_result = NoResult
    /\ candidate = NoCandidate
    /\ validation = NoValidation
    /\ given = NoCandidate
    /\ wrong_type = WellTyped
    /\ allocation = NoValidation
    /\ calc_score \in CalcScores
    /\ calc_other = 0
    /\ calc_value = 0
    /\ InitCampaign
    /\ InitConcurrent

NextCalc ==
    \/ CalculateAttributeBonus
    \/ CalculateSkillRank

SpecCalc == InitCalc /\ [][NextCalc]_vars

(***************************************************************************)
(* The derived-stat functions on their own: the score is any of            *)
(* DerivedScores.                                                          *)
(***************************************************************************)
InitDerived ==
    /\ pc = "idle"
    /\ args = NoArgs
    /\ attribute_bonus = 0
    /\ skill_rank = 0
    /\ roll1 = 0
    /\ roll2 = 0
    /\ dice_rolls = <<>>
    /\ dice_result = 0
    /\ rolled = <<>>
    /\ result = NoResult
    /\ mock = <<>>
    /\ first_result = NoResult
    /\ candidate = NoCandidate
    /\ validation = NoValidation
    /\ given = NoCandidate
    /\ wrong_type = WellTyped
    /\ allocation = NoValidation
    /\ calc_score \in DerivedScores
    /\ calc_other = 0
    /\ calc_value = 0
    /\ InitCampaign
    /\ InitConcurrent

NextDerived ==
    \/ CalculateMaxHp
    \/ CalculateMaxFocus
    \/ CalculateInventorySlots

SpecDerived == InitDerived /\ [][NextDerived]_vars

(***************************************************************************)
(* One invocation of create_campaign and a read of the campaign after it.  *)
(***************************************************************************)
NextCampaign ==
    \/ CreateCampaignCall
    \/ CreateCampaignFlush
    \/ CreateCampaignCommit
    \/ CreateCampaignRefresh
    \/ CreateCampaignRespond
    \/ CreateCampaignExcept
    \/ GetCampaignById

SpecCampaign == Init /\ [][NextCampaign]_vars

(***************************************************************************)
(* The quick and the full validator on the same attribute map.             *)
(***************************************************************************)
NextBothWays == ValidateAttributesBothWays

SpecBothWays == Init /\ [][NextBothWays]_vars

(***************************************************************************)
(* The validators on arguments that need not be of the annotated types.    *)
(***************************************************************************)
InitUntyped ==
    /\ pc = "idle"
    /\ args = NoArgs
    /\ attribute_bonus = 0
    /\ skill_rank = 0
    /\ roll1 = 0
    /\ roll2 = 0
    /\ dice_rolls = <<>>
    /\ dice_result = 0
    /\ rolled = <<>>
    /\ result = NoResult
    /\ mock = <<>>
    /\ first_result = NoResult
    /\ candidate = NoCandidate
    /\ validation = NoValidation
    /\ given = NoCandidate
    /\ wrong_type \in WrongTypes
    /\ allocation = NoValidation
    /\ calc_score = 0
    /\ calc_other = 0
    /\ calc_value = 0
    /\ InitCampaign
    /\ InitConcurrent

NextUntyped ==
    \/ ValidateUntypedCandidate
    \/ ValidateAttributeAllocation

SpecUntyped == InitUntyped /\ [][NextUntyped]_vars

(***************************************************************************)
(* Several invocations of perform_check at the same time, on threads that  *)
(* take no lock.  The names perform_check binds (lines 85-107) are locals  *)
(* of the call, one frame an invocation; roll_d12 (line 44) draws from the *)
(* random module's one generator, which every thread shares.  A step is a  *)
(* call of roll_d12 with the statements on locals that follow it.          *)
(***************************************************************************)
\* mutant: the names are module-level, one frame for every invocation
frame_of_module(i) == CHOOSE j \in Invocations : \A k \in Invocations : j <= k

\* lines 85-107: attribute_bonus, skill_rank, dice_rolls, roll1, roll2,
\* dice_result, total, margin and outcome are bound in the call's own frame
frame_of(i) == i

ConcurrentArgs ==
    {[attribute_score |-> 6, skill_score |-> 8, difficulty |-> 10,
      edge |-> "none", situational_modifier |-> 0],
     [attribute_score |-> 13, skill_score |-> 3, difficulty |-> 8,
      edge |-> "advantage", situational_modifier |-> 1],
     [attribute_score |-> 3, skill_score |-> 17, difficulty |-> 14,
      edge |-> "disadvantage", situational_modifier |-> -1]}

\* lines 85-89
ConcurrentEnter(i) ==
    /\ invocation[i].pc = "idle"
    /\ \E a \in ConcurrentArgs :
          /\ invocation' = [invocation EXCEPT ![i].pc = "roll1", ![i].args = a]
          /\ frames' = [frames EXCEPT
                ![frame_of(i)].attribute_bonus =
                    calculate_attribute_bonus(a.attribute_score),
                ![frame_of(i)].skill_rank = calculate_skill_rank(a.skill_score),
                ![frame_of(i)].dice_rolls = <<>>]
    /\ UNCHANGED <<source, outside_concurrent>>

\* lines 92 and 97; line 103 with lines 104-105
ConcurrentRoll1(i) ==
    /\ invocation[i].pc = "roll1"
    /\ \E r \in roll_d12 :
          /\ source' = Append(source, i)
          /\ IF rolls_twice(invocation[i].args.edge)
               THEN /\ invocation' = [invocation EXCEPT
                          ![i].pc = "roll2", ![i].drawn = Append(@, r)]
                    /\ frames' = [frames EXCEPT ![frame_of(i)].roll1 = r]
               ELSE /\ invocation' = [invocation EXCEPT
                          ![i].pc = "total", ![i].drawn = Append(@, r)]
                    /\ frames' = [frames EXCEPT
                          ![frame_of(i)].dice_result = r,
                          ![frame_of(i)].dice_rolls = <<r>>]
    /\ UNCHANGED outside_concurrent

\* lines 93-95 and 98-100
ConcurrentRoll2(i) ==
    /\ invocation[i].pc = "roll2"
    /\ \E r \in roll_d12 :
          /\ source' = Append(source, i)
          /\ invocation' = [invocation EXCEPT
                ![i].pc = "total", ![i].drawn = Append(@, r)]
          /\ frames' = [frames EXCEPT
                ![frame_of(i)].roll2 = r,
                ![frame_of(i)].dice_rolls =
                    RecordedRolls(frames[frame_of(i)].roll1, r),
                ![frame_of(i)].dice_result =
                    KeptDie(invocation[i].args.edge, frames[frame_of(i)].roll1, r)]
    /\ UNCHANGED outside_concurrent

\* lines 107-129
ConcurrentReturn(i) ==
    /\ invocation[i].pc = "total"
    /\ invocation' = [invocation EXCEPT
          ![i].pc = "returned",
          ![i].result = CheckResult(invocation[i].args,
                                    frames[frame_of(i)].attribute_bonus,
                                    frames[frame_of(i)].skill_rank,
                                    frames[frame_of(i)].dice_rolls,
                                    frames[frame_of(i)].dice_result)]
    /\ UNCHANGED <<frames, source, outside_concurrent>>

NextConcurrent ==
    \/ \E i \in Invocations : ConcurrentEnter(i)
    \/ \E i \in Invocations : ConcurrentRoll1(i)
    \/ \E i \in Invocations : ConcurrentRoll2(i)
    \/ \E i \in Invocations : ConcurrentReturn(i)

SpecConcurrent == Init /\ [][NextConcurrent]_vars

(***************************************************************************)
(* Properties of perform_check.                                            *)
(***************************************************************************)
\* the die that enters the total, selected from recorded rolls by the edge mode
DieUsed(rolls, edge) ==
    IF edge = "none" THEN rolls[1]
    ELSE IF edge = "advantage"
           THEN (IF rolls[1] >= rolls[2] THEN rolls[1] ELSE rolls[2])
           ELSE (IF rolls[1] <= rolls[2] THEN rolls[1] ELSE rolls[2])

\* C1: the outcome of every returned CheckResult is fixed by its margin:
\* margin >= 5 STRONG_SUCCESS, 0..4 SUCCESS, -2..-1 NEAR_MISS, <= -3 FAILURE.
C1_OutcomeByMargin ==
    pc = "returned" =>
        /\ result.margin >= 5 => result.outcome = "strong_success"
        /\ (0 <= result.margin /\ result.margin <= 4) => result.outcome = "success"
        /\ (-2 <= result.margin /\ result.margin <= -1) => result.outcome = "near_miss"
        /\ result.margin <= -3 => result.outcome = "failure"

\* a check that missed by exactly 2 and came out a NEAR_MISS
C1_Witness ==
    /\ pc = "returned"
    /\ result.margin = -2
    /\ result.outcome = "near_miss"

\* C2: every returned CheckResult has total = die used + attribute_bonus +
\* skill_rank + situational_modifier and margin = total - difficulty, the die
\* used being the one the edge mode selects from the recorded dice_rolls.
C2_TotalAndMargin ==
    pc = "returned" =>
        /\ result.total = DieUsed(result.dice_rolls, result.edge_type)
                          + result.attribute_bonus + result.skill_rank
                          + result.situational_modifier
        /\ result.margin = result.total - result.difficulty

\* a returned check under DISADVANTAGE with a non-zero modifier and bonuses
C2_Witness ==
    /\ pc = "returned"
    /\ result.edge_type = "disadvantage"
    /\ result.dice_rolls[1] > result.dice_rolls[2]
    /\ result.situational_modifier # 0
    /\ result.attribute_bonus # 0
    /\ result.skill_rank # 0

\* C3: under ADVANTAGE and DISADVANTAGE roll_d12 is called exactly twice, the
\* two rolls are recorded in dice_rolls in the order rolled, and the die that
\* enters the total is their maximum (ADVANTAGE) or minimum (DISADVANTAGE).
C3_TwoRollsInOrder ==
    (pc = "returned" /\ args.edge \in {"advantage", "disadvantage"}) =>
        /\ Len(rolled) = 2
        /\ result.dice_rolls = rolled
        /\ \E die \in {rolled[1], rolled[2]} :
              /\ args.edge = "advantage" => (die >= rolled[1] /\ die >= rolled[2])
              /\ args.edge = "disadvantage" => (die <= rolled[1] /\ die <= rolled[2])
              /\ result.total = die + result.attribute_bonus + result.skill_rank
                                + args.situational_modifier

\* a returned ADVANTAGE check whose second roll was the higher one
C3_Witness ==
    /\ pc = "returned"
    /\ args.edge = "advantage"
    /\ Len(rolled) = 2
    /\ rolled[1] < rolled[2]
    /\ result.dice_rolls = rolled

\* C4: under NONE roll_d12 is called exactly once, dice_rolls holds exactly
\* that roll, and it is the die that enters the total.
C4_NoneRollsOnce ==
    (pc = "returned" /\ args.edge = "none") =>
        /\ Len(rolled) = 1
        /\ result.dice_rolls = <<rolled[1]>>
        /\ result.total = rolled[1] + result.attribute_bonus + result.skill_rank
                          + args.situational_modifier

\* a returned check under NONE
C4_Witness ==
    /\ pc = "returned"
    /\ args.edge = "none"
    /\ Len(rolled) = 1
    /\ result.dice_rolls = rolled

\* C5: perform_check has no error outcome: it can be entered with every
\* argument tuple (scores below 0 and above 20 and negative difficulty
\* included), every step it has reached can be followed by the next, and what
\* it returns is a CheckResult of integers with an outcome tier.
C5_NoErrorOutcome ==
    /\ pc = "idle" => \A a \in CheckArgs : ENABLED PerformCheckEnter(a)
    /\ pc = "roll1" => ENABLED PerformCheckRoll1
    /\ pc = "roll2" => ENABLED PerformCheckRoll2
    /\ pc = "total" => ENABLED PerformCheckReturn
    /\ pc = "returned" =>
          /\ result.kind = "CheckResult"
          /\ result.total \in Int
          /\ result.margin \in Int
          /\ result.outcome \in Outcome

\* a check returned for a negative attribute score, a skill score above 20
\* and a negative difficulty
C5_Witness ==
    /\ pc = "returned"
    /\ args.attribute_score < 0
    /\ args.skill_score > 20
    /\ args.difficulty < 0
    /\ result.kind = "CheckResult"

(***************************************************************************)
(* Properties of validate_character_creation.  The six rules are stated on *)
(* the candidate alone.                                                    *)
(***************************************************************************)
AttributeNames == {"might", "agility", "wits", "presence"}

CanonicalSkills == {"Blade", "Bow", "Brawl", "Sneak", "Survival",
                    "Lore", "Craft", "Influence", "Insight", "Channel"}

\* the sum of the attribute scores the map holds
ScoreOrZero(attributes, a) == IF a \in DOMAIN attributes THEN attributes[a] ELSE 0

AttributeSum(attributes) ==
    ScoreOrZero(attributes, "might") + ScoreOrZero(attributes, "agility")
    + ScoreOrZero(attributes, "wits") + ScoreOrZero(attributes, "presence")

AttributesPresentInRange(c) ==
    \A a \in AttributeNames : a \in DOMAIN c.attributes /\ c.attributes[a] \in 0..20

SkillsPresentInRange(c) ==
    \A k \in CanonicalSkills : k \in DOMAIN c.skills /\ c.skills[k] \in 0..20

\* rule 1: attribute presence and range
Violates1(c) == ~AttributesPresentInRange(c)

\* rule 2: attribute sum 15
Violates2(c) == AttributeSum(c.attributes) # 15

\* rule 3: skill presence and range
Violates3(c) == ~SkillsPresentInRange(c)

\* rule 4: exactly 3 selected skills (entries of the skill map with a positive score)
Violates4(c) == Cardinality({k \in DOMAIN c.skills : c.skills[k] > 0}) # 3

\* rule 5: exactly 2 talents
Violates5(c) == Len(c.talents) # 2

\* rule 6: every talent has a name
Violates6(c) == \E i \in 1..Len(c.talents) : "name" \notin DOMAIN c.talents[i]

ViolatedRules(c) ==
    {n \in 1..6 : \/ n = 1 /\ Violates1(c)
                  \/ n = 2 /\ Violates2(c)
                  \/ n = 3 /\ Violates3(c)
                  \/ n = 4 /\ Violates4(c)
                  \/ n = 5 /\ Violates5(c)
                  \/ n = 6 /\ Violates6(c)}

\* the rule a failure message speaks of
RuleOfMessage(template) ==
    CASE template = "Missing attribute: {attr}" -> 1
      [] template = "Attribute {attr} must be 0-20, got {score}" -> 1
      [] template = "Attributes must sum to 15, got {attr_total}" -> 2
      [] template = "Missing skill: {skill}" -> 3
      [] template = "Skill {skill} must be 0-20, got {score}" -> 3
      [] template = "Must select exactly 3 starting skills, got {len(selected_skills)}" -> 4
      [] template = "Must select exactly 2 starting talents, got {len(talents)}" -> 5
      [] template = "Talent missing 'name' field" -> 6
      [] OTHER -> 0

Raised(v) == v.ended = "raise" /\ v.exception = "ValidationError"

MentionsSumTo15(v) == v.template = "Attributes must sum to 15, got {attr_total}"

RanSkillCheck(v) ==
    \E i \in 1..Len(v.steps) : v.steps[i] \in {"skills", "selected_skills"}

SkillsAndTalentsValid(c) ==
    ~Violates3(c) /\ ~Violates4(c) /\ ~Violates5(c) /\ ~Violates6(c)

\* C7 as stated: with might 22, the other attributes valid and a sum that is
\* not 15, and valid skills and talents, the failure mentions "sum to 15" and
\* no skill check has run.
C7_AsStated ==
    (/\ pc = "validated"
     /\ "might" \in DOMAIN candidate.attributes
     /\ candidate.attributes["might"] = 22
     /\ \A a \in AttributeNames \ {"might"} :
           a \in DOMAIN candidate.attributes /\ candidate.attributes[a] \in 0..20
     /\ AttributeSum(candidate.attributes) # 15
     /\ SkillsAndTalentsValid(candidate)) =>
        /\ Raised(validation)
        /\ MentionsSumTo15(validation)
        /\ ~RanSkillCheck(validation)

\* C7 (amended): with valid skills and talents, attributes that are all
\* present and in [0,20] but do not sum to 15 are refused with the "sum to 15"
\* failure before any skill check runs; with might 22 the failure is
\* "Attribute might must be 0-20, got 22" instead, also before any skill check.
C7_SumFailureNeedsRange ==
    (pc = "validated" /\ SkillsAndTalentsValid(candidate)) =>
        /\ (AttributesPresentInRange(candidate)
            /\ AttributeSum(candidate.attributes) # 15) =>
               /\ Raised(validation)
               /\ MentionsSumTo15(validation)
               /\ ~RanSkillCheck(validation)
        /\ ("might" \in DOMAIN candidate.attributes
            /\ candidate.attributes["might"] = 22) =>
               /\ Raised(validation)
               /\ validation.template = "Attribute {attr} must be 0-20, got {score}"
               /\ validation.name = "might"
               /\ validation.got = 22
               /\ ~RanSkillCheck(validation)

\* attributes in range with sum 22, valid skills and talents: the "sum to 15"
\* failure, raised before the skill checks
C7_Witness ==
    /\ pc = "validated"
    /\ SkillsAndTalentsValid(candidate)
    /\ AttributesPresentInRange(candidate)
    /\ AttributeSum(candidate.attributes) = 22
    /\ MentionsSumTo15(validation)
    /\ validation.steps = <<"attributes", "attr_total">>

\* the conditions C8 names: attributes in range summing to 15, the ten
\* canonical skills in range with exactly 3 of them non-zero, 2 named talents
MeetsStatedConditions(c) ==
    /\ AttributesPresentInRange(c)
    /\ AttributeSum(c.attributes) = 15
    /\ SkillsPresentInRange(c)
    /\ Cardinality({k \in CanonicalSkills : c.skills[k] # 0}) = 3
    /\ Len(c.talents) = 2
    /\ \A i \in 1..Len(c.talents) : "name" \in DOMAIN c.talents[i]

\* C8 as stated: every candidate meeting the stated conditions is accepted.
C8_AsStated ==
    (pc = "validated" /\ MeetsStatedConditions(candidate)) =>
        validation.ended = "return"

\* C8 (amended): a candidate meeting the stated conditions whose skill map
\* gives no positive score to any entry other than the ten canonical skills
\* is accepted, whatever its path id; the path id changes no decision.
C8_AcceptsValidCandidate ==
    pc = "validated" =>
        /\ (/\ MeetsStatedConditions(candidate)
            /\ \A k \in DOMAIN candidate.skills \ CanonicalSkills :
                  candidate.skills[k] <= 0) => validation.ended = "return"
        /\ \A p \in PathInputs :
              validate_character_creation(candidate.attributes, candidate.skills,
                                          candidate.talents, p) = validation

\* an accepted candidate whose talents require another path than its own
C8_Witness ==
    /\ pc = "validated"
    /\ MeetsStatedConditions(candidate)
    /\ validation.ended = "return"
    /\ \E i \in 1..Len(candidate.talents) :
          candidate.talents[i].requirements # candidate.path_id

\* the first of might, agility, wits, presence that is absent or out of range
FirstOffending(attributes) ==
    LET bad(a) == a \notin DOMAIN attributes \/ attributes[a] \notin 0..20
    IN  IF bad("might") THEN "might"
        ELSE IF bad("agility") THEN "agility"
        ELSE IF bad("wits") THEN "wits"
        ELSE "presence"

\* C9 as stated: an absent or out-of-range attribute is refused with the
\* "attribute out of range" failure.
C9_AsStated ==
    (pc = "validated" /\ Violates1(candidate)) =>
        /\ Raised(validation)
        /\ validation.template = "Attribute {attr} must be 0-20, got {score}"

\* C9 (amended): a candidate in which an attribute is absent or outside [0,20]
\* is refused whatever its attribute sum, skills and talents are; the failure
\* is about the first such attribute in the order might, agility, wits,
\* presence: "Missing attribute: <name>" when it is absent, "Attribute <name>
\* must be 0-20, got <score>" when it is out of range.
C9_AttributeFailure ==
    (pc = "validated" /\ Violates1(candidate)) =>
        LET a == FirstOffending(candidate.attributes) IN
        /\ Raised(validation)
        /\ validation.name = a
        /\ validation.steps = <<"attributes">>
        /\ IF a \in DOMAIN candidate.attributes
             THEN /\ validation.template = "Attribute {attr} must be 0-20, got {score}"
                  /\ validation.got = candidate.attributes[a]
             ELSE validation.template = "Missing attribute: {attr}"

\* agility below 0 is reported although presence is absent and the sum, the
\* skills and the talents are wrong too
C9_Witness ==
    /\ pc = "validated"
    /\ FirstOffending(candidate.attributes) = "agility"
    /\ "agility" \in DOMAIN candidate.attributes
    /\ candidate.attributes["agility"] < 0
    /\ "presence" \notin DOMAIN candidate.attributes
    /\ {3, 4, 5, 6} \subseteq ViolatedRules(candidate)
    /\ validation.template = "Attribute {attr} must be 0-20, got {score}"
    /\ validation.name = "agility"

\* C10: when the four attributes are present and in [0,20] and their sum N is
\* not 15, the failure is "Attributes must sum to 15, got N" with N the actual
\* sum, whatever the skills and talents are.
C10_SumFailureReportsSum ==
    (/\ pc = "validated"
     /\ AttributesPresentInRange(candidate)
     /\ AttributeSum(candidate.attributes) # 15) =>
        /\ Raised(validation)
        /\ MentionsSumTo15(validation)
        /\ validation.got = candidate.attributes["might"] + candidate.attributes["agility"]
                            + candidate.attributes["wits"] + candidate.attributes["presence"]

\* a sum of 22 reported although the skills and the talents are invalid too
C10_Witness ==
    /\ pc = "validated"
    /\ AttributesPresentInRange(candidate)
    /\ {3, 4, 5, 6} \subseteq ViolatedRules(candidate)
    /\ MentionsSumTo15(validation)
    /\ validation.got = 22

\* the ten canonical skill names in the order of the vocabulary
CanonicalOrder == <<"Blade", "Bow", "Brawl", "Sneak", "Survival",
                    "Lore", "Craft", "Influence", "Insight", "Channel">>

\* the first canonical skill that is absent or out of range
FirstOffendingSkill(skills) ==
    LET bad(i) == CanonicalOrder[i] \notin DOMAIN skills
                  \/ skills[CanonicalOrder[i]] \notin 0..20
        first == CHOOSE i \in 1..10 : bad(i) /\ \A j \in 1..(i - 1) : ~bad(j)
    IN  CanonicalOrder[first]

\* C11: when the attribute rules pass and a canonical skill name (matched
\* case-sensitively) is absent or has a score outside [0,20], the candidate is
\* refused before the selected skills are counted: with "Missing skill" when
\* the skill at fault is absent, with "Skill ... must be 0-20" when its score
\* is out of range, the skill at fault being the first such in the vocabulary.
C11_SkillPresenceAndRange ==
    (/\ pc = "validated"
     /\ ~Violates1(candidate) /\ ~Violates2(candidate)
     /\ Violates3(candidate)) =>
        LET k == FirstOffendingSkill(candidate.skills) IN
        /\ Raised(validation)
        /\ validation.name = k
        /\ validation.steps = <<"attributes", "attr_total", "skills">>
        /\ IF k \in DOMAIN candidate.skills
             THEN /\ validation.template = "Skill {skill} must be 0-20, got {score}"
                  /\ validation.got = candidate.skills[k]
             ELSE validation.template = "Missing skill: {skill}"

\* a map that spells Blade "blade" and selects 4 skills: refused for the
\* missing Blade, not for the count
C11_Witness ==
    /\ pc = "validated"
    /\ ~Violates1(candidate) /\ ~Violates2(candidate)
    /\ "blade" \in DOMAIN candidate.skills
    /\ "Blade" \notin DOMAIN candidate.skills
    /\ Violates4(candidate)
    /\ validation.template = "Missing skill: {skill}"
    /\ validation.name = "Blade"

CountFailure(v) ==
    /\ Raised(v)
    /\ v.template = "Must select exactly 3 starting skills, got {len(selected_skills)}"

\* the number of canonical skills with a non-zero score
NonZeroSkills(c) == Cardinality({k \in CanonicalSkills : c.skills[k] # 0})

\* the number of entries of the skill map with a score above zero
PositiveEntries(c) == Cardinality({k \in DOMAIN c.skills : c.skills[k] > 0})

\* C12 as stated: when rules 1-3 pass, a skill set is refused with the count
\* failure when the number of skills with a non-zero score is not 3, and the
\* N of every count failure is that number.
C12_AsStated ==
    (/\ pc = "validated"
     /\ ~Violates1(candidate) /\ ~Violates2(candidate) /\ ~Violates3(candidate)) =>
        /\ NonZeroSkills(candidate) # 3 => CountFailure(validation)
        /\ CountFailure(validation) => validation.got = NonZeroSkills(candidate)

\* C12 (amended): when rules 1-3 pass, the skill set passes the count exactly
\* when 3 entries of the supplied skill map have a score above zero; otherwise
\* the candidate is refused with "Must select exactly 3 starting skills, got N",
\* N being the number of entries of the map with a score above zero.
C12_SelectedCount ==
    (/\ pc = "validated"
     /\ ~Violates1(candidate) /\ ~Violates2(candidate) /\ ~Violates3(candidate)) =>
        IF PositiveEntries(candidate) # 3
          THEN /\ CountFailure(validation)
               /\ validation.got = PositiveEntries(candidate)
               /\ validation.steps =
                      <<"attributes", "attr_total", "skills", "selected_skills">>
          ELSE /\ ~CountFailure(validation)
               /\ Len(validation.steps) > 4

\* four canonical skills selected: refused with got 4
C12_Witness ==
    /\ pc = "validated"
    /\ ~Violates1(candidate) /\ ~Violates2(candidate) /\ ~Violates3(candidate)
    /\ DOMAIN candidate.skills = CanonicalSkills
    /\ NonZeroSkills(candidate) = 4
    /\ CountFailure(validation)
    /\ validation.got = 4

RulesOneToFourPass(c) ==
    ~Violates1(c) /\ ~Violates2(c) /\ ~Violates3(c) /\ ~Violates4(c)

\* C13: when rules 1-4 pass, a talent list of N # 2 entries is refused with
\* "Must select exactly 2 starting talents, got N", whether or not its entries
\* carry a name; a list of 2 entries of which one has no name field is refused
\* for the missing name, after the count check has passed.
C13_TalentCountThenNames ==
    (pc = "validated" /\ RulesOneToFourPass(candidate)) =>
        /\ Len(candidate.talents) # 2 =>
              /\ Raised(validation)
              /\ validation.template =
                     "Must select exactly 2 starting talents, got {len(talents)}"
              /\ validation.got = Len(candidate.talents)
              /\ validation.steps = <<"attributes", "attr_total", "skills",
                                      "selected_skills", "talent_count">>
        /\ (Len(candidate.talents) = 2 /\ Violates6(candidate)) =>
              /\ Raised(validation)
              /\ validation.template = "Talent missing 'name' field"
              /\ validation.steps = <<"attributes", "attr_total", "skills",
                                      "selected_skills", "talent_count",
                                      "talent_names">>

\* three talents of which one has no name: refused for the count
C13_Witness ==
    /\ pc = "validated"
    /\ RulesOneToFourPass(candidate)
    /\ Len(candidate.talents) = 3
    /\ Violates6(candidate)
    /\ validation.template = "Must select exactly 2 starting talents, got {len(talents)}"
    /\ validation.got = 3

\* the first call of roll_d12 of this invocation returns v
FirstRollReturns(v) == PerformCheckRoll1 /\ rolled' = Append(rolled, v)

\* the second call of roll_d12 of this invocation returns v
SecondRollReturns(v) == PerformCheckRoll2 /\ rolled' = Append(rolled, v)

\* C16: roll_d12 returns only integers of 1..12, each of the twelve values
\* can be returned by each call, and every element of the dice_rolls of a
\* CheckResult is in 1..12.
C16_DieRange ==
    /\ \A i \in 1..Len(rolled) : rolled[i] \in 1..12
    /\ pc = "roll1" => \A v \in 1..12 : ENABLED FirstRollReturns(v)
    /\ pc = "roll2" => \A v \in 1..12 : ENABLED SecondRollReturns(v)
    /\ pc = "returned" =>
          \A i \in 1..Len(result.dice_rolls) : result.dice_rolls[i] \in 1..12

\* a result whose rolls are the two ends of the range
C16_Witness ==
    /\ pc = "returned"
    /\ rolled = <<12, 1>>
    /\ result.dice_rolls = <<12, 1>>

\* q is the floor of s / d, for d > 0
IsFloorOf(q, s, d) == d * q <= s /\ s < d * q + d

\* the outcome tier of a total against a difficulty
TierOf(total, difficulty) ==
    CASE total - difficulty >= 5 -> "strong_success"
      [] total - difficulty \in 0..4 -> "success"
      [] total - difficulty \in {-2, -1} -> "near_miss"
      [] total - difficulty < -2 -> "failure"

\* C18: the CheckResult records the difficulty, the situational modifier and
\* the edge mode passed in, attribute_bonus = floor(attribute_score / 2) and
\* skill_rank = floor(skill_score / 4), and its total, margin and outcome
\* follow from its own fields and the die kept.
C18_ResultRecordsInputs ==
    pc = "returned" =>
        /\ result.difficulty = args.difficulty
        /\ result.situational_modifier = args.situational_modifier
        /\ result.edge_type = args.edge
        /\ IsFloorOf(result.attribute_bonus, args.attribute_score, 2)
        /\ IsFloorOf(result.skill_rank, args.skill_score, 4)
        /\ result.total = DieUsed(result.dice_rolls, result.edge_type)
                          + result.attribute_bonus + result.skill_rank
                          + result.situational_modifier
        /\ result.margin = result.total - result.difficulty
        /\ result.outcome = TierOf(result.total, result.difficulty)

\* a check of scores below 0 and above 20 under disadvantage with a modifier
C18_Witness ==
    /\ pc = "returned"
    /\ args.attribute_score = -3 /\ result.attribute_bonus = -2
    /\ args.skill_score = 23 /\ result.skill_rank = 5
    /\ result.edge_type = "disadvantage"
    /\ result.situational_modifier = -1
    /\ result.difficulty = 15

\* C19: the outcome of a CheckResult is SUCCESS or STRONG_SUCCESS exactly when
\* total >= difficulty, and NEAR_MISS or FAILURE exactly when
\* total < difficulty.
C19_SuccessIffTotalMeetsDifficulty ==
    pc = "returned" =>
        /\ result.outcome \in {"success", "strong_success"}
               <=> result.total >= result.difficulty
        /\ result.outcome \in {"near_miss", "failure"}
               <=> result.total < result.difficulty

\* a total that equals the difficulty succeeds
C19_Witness ==
    /\ pc = "returned"
    /\ result.total = result.difficulty
    /\ result.outcome = "success"

\* C20: for every score s >= 0, also above 20, calculate_attribute_bonus(s)
\* is floor(s / 2) and calculate_skill_rank(s) is floor(s / 4), and neither
\* fails: bonus(6) = 3, bonus(1) = 0, rank(8) = 2, rank(3) = 0.
C20_CalculatorsFloor ==
    /\ pc = "idle" => ENABLED CalculateAttributeBonus /\ ENABLED CalculateSkillRank
    /\ pc = "bonus_calculated" =>
          /\ IsFloorOf(calc_value, calc_score, 2)
          /\ calc_score = 6 => calc_value = 3
          /\ calc_score = 1 => calc_value = 0
    /\ pc = "rank_calculated" =>
          /\ IsFloorOf(calc_value, calc_score, 4)
          /\ calc_score = 8 => calc_value = 2
          /\ calc_score = 3 => calc_value = 0

\* the rank of a score above the nominal maximum that is no multiple of 4
C20_Witness ==
    /\ pc = "rank_calculated"
    /\ calc_score = 23
    /\ calc_value = 5

\* the allocation is present, of integers in range, and sums to 15
AllocationValid(attributes) ==
    /\ AttributeNames \subseteq DOMAIN attributes
    /\ \A a \in AttributeNames :
          a \notin wrong_type.attributes /\ attributes[a] \in 0..20
    /\ AttributeSum(attributes) = 15

\* C14: validate_attribute_allocation returns a boolean and raises nothing;
\* it returns true exactly when the four attributes are present, each an
\* integer of 0..20, and sum to 15, and false otherwise: on a missing key, a
\* sum other than 15, a value out of range, or a value of the wrong type.
C14_AllocationBoolean ==
    pc = "allocation_returned" =>
        /\ allocation.ended = "return"
        /\ allocation.value \in BOOLEAN
        /\ allocation.value <=> AllocationValid(candidate.attributes)

\* four attributes of which presence is a str: false, nothing raised
C14_Witness ==
    /\ pc = "allocation_returned"
    /\ AttributeNames \subseteq DOMAIN candidate.attributes
    /\ wrong_type.attributes = {"presence"}
    /\ allocation.ended = "return"
    /\ allocation.value = FALSE

\* C15: validate_character_creation ends by returning success or by raising
\* one ValidationError, and in no other way, also for attribute and skill maps
\* with wrongly typed values and talent entries that are not mappings.
C15_OnlyValidationErrorEscapes ==
    pc = "validated" =>
        \/ validation.ended = "return"
        \/ Raised(validation)

C21_DerivedStats ==
    /\ pc = "max_hp_calculated" => calc_value = 8 + 2 * calc_score
    /\ pc = "max_focus_calculated" => calc_value = 4 + calc_score + calc_other
    /\ pc = "inventory_slots_calculated" => calc_value = 8 + calc_score

\* the hit points of Might 6
C21_Witness ==
    /\ pc = "max_hp_calculated"
    /\ calc_score = 6
    /\ calc_value = 20

\* C22: the inventory_slots the system reports for a character of Might m is
\* calculate_inventory_slots(m) = 8 + m.
C22_InventorySlotsOneFormula ==
    reported # NoRow =>
        /\ reported.inventory_slots = calculate_inventory_slots(reported.might_score)
        /\ reported.inventory_slots = 8 + reported.might_score

\* C23: the character create_campaign has committed holds the requested
\* attribute scores, max_hp = 8 + 2*might, max_focus = 4 + wits + presence,
\* current_hp = max_hp and current_focus = max_focus.
C23_StartsAtFullResources ==
    db.persisted.character # NoRow =>
        LET char == db.persisted.character IN
        /\ char.might_score = request.attributes.might
        /\ char.agility_score = request.attributes.agility
        /\ char.wits_score = request.attributes.wits
        /\ char.presence_score = request.attributes.presence
        /\ char.max_hp = 8 + 2 * char.might_score
        /\ char.max_focus = 4 + char.wits_score + char.presence_score
        /\ char.current_hp = char.max_hp
        /\ char.current_focus = char.max_focus

\* the character of Might 3, Agility 6, Wits 4, Presence 2: 14 hit points and
\* a focus pool of 10
C23_Witness ==
    /\ pc = "cc_returned"
    /\ db.persisted.character # NoRow
    /\ request.attributes = [might |-> 3, agility |-> 6, wits |-> 4, presence |-> 2]
    /\ db.persisted.character.current_hp = 14
    /\ db.persisted.character.current_focus = 10

\* C30: when create_campaign ends by raising CampaignCreationError, neither
\* the campaign nor the character is persisted, and a campaign is never
\* persisted without its character.
C30_AllOrNothing ==
    /\ (pc = "cc_raised" /\ creation.exception = "CampaignCreationError") =>
          /\ db.persisted.campaign = NoRow
          /\ db.persisted.character = NoRow
    /\ db.persisted.campaign # NoRow => db.persisted.character # NoRow

\* C26: a CheckResult is immutable: once perform_check has returned it, it
\* keeps the fields it was returned with, so its margin stays
\* total - difficulty and its outcome the tier of that margin.
C26_CheckResultImmutable ==
    pc = "returned" =>
        /\ result = CheckResult(args, attribute_bonus, skill_rank, dice_rolls, dice_result)
        /\ result.margin = result.total - result.difficulty
        /\ result.outcome = TierOf(result.total, result.difficulty)

\* the entries of a skill map beside the ten canonical skills
ExtraSkills(c) == DOMAIN c.skills \ CanonicalSkills

\* C27: the count of selected skills is taken over every entry of the skill
\* map: a map with the ten canonical skills, exactly 3 of them non-zero, and
\* one more entry with a positive score is refused with "Must select exactly 3
\* starting skills, got 4"; and the score of an entry beside the canonical
\* ten is never checked against [0,20]: no range failure names it.
C27_CountOverEveryEntry ==
    pc = "validated" =>
        /\ (/\ ~Violates1(candidate) /\ ~Violates2(candidate) /\ ~Violates3(candidate)
            /\ NonZeroSkills(candidate) = 3
            /\ Cardinality(ExtraSkills(candidate)) = 1
            /\ \A k \in ExtraSkills(candidate) : candidate.skills[k] > 0) =>
              /\ CountFailure(validation)
              /\ validation.got = 4
        /\ (/\ Raised(validation)
            /\ validation.template = "Skill {skill} must be 0-20, got {score}") =>
              validation.name \in CanonicalSkills

\* the ten canonical skills, 3 of them selected, and Herbalism at 25: counted
\* as a fourth selected skill, its 25 not refused as out of range
C27_Witness ==
    /\ pc = "validated"
    /\ ~Violates1(candidate) /\ ~Violates2(candidate) /\ ~Violates3(candidate)
    /\ NonZeroSkills(candidate) = 3
    /\ ExtraSkills(candidate) = {"Herbalism"}
    /\ candidate.skills["Herbalism"] = 25
    /\ CountFailure(validation)
    /\ validation.got = 4

\* the full validator found nothing wrong with the attributes: it returned, or
\* it raised in a check that comes after the attribute rules
AttributeRulesPassed(v) == v.ended = "return" \/ Len(v.steps) > 2

\* C28: for every attribute map with integer values,
\* validate_attribute_allocation returns true exactly when
\* validate_character_creation passes its attribute rules (presence, range,
\* sum 15) for that map.
C28_QuickAgreesWithFull ==
    pc = "compared" =>
        /\ allocation.ended = "return"
        /\ allocation.value <=> AttributeRulesPassed(validation)

\* a map that sums to 15 with Presence -1: the quick validator passes the sum
\* and fails the range, the full validator fails the range first
C28_Witness ==
    /\ pc = "compared"
    /\ AttributeNames \subseteq DOMAIN candidate.attributes
    /\ AttributeSum(candidate.attributes) = 15
    /\ candidate.attributes["presence"] = -1
    /\ allocation.value = FALSE
    /\ validation.template = "Attribute {attr} must be 0-20, got {score}"

\* DISADVANTAGE < NONE < ADVANTAGE
EdgeRank(edge) ==
    CASE edge = "disadvantage" -> 0 [] edge = "none" -> 1 [] edge = "advantage" -> 2

\* FAILURE < NEAR_MISS < SUCCESS < STRONG_SUCCESS
TierRank(outcome) ==
    CASE outcome = "failure" -> 0 [] outcome = "near_miss" -> 1
      [] outcome = "success" -> 2 [] outcome = "strong_success" -> 3

\* a is no better a result than b
NoBetter(a, b) ==
    a.total <= b.total /\ TierRank(a.outcome) <= TierRank(b.outcome)

\* C29: of two checks with the same scores, difficulty and modifier and the
\* same rolls (r1, r2), NONE using r1, the one under the higher edge mode
\* (DISADVANTAGE < NONE < ADVANTAGE) has a total at least as high and an
\* outcome tier at least as good.
C29_EdgeModesOrdered ==
    (pc = "returned" /\ first_result # NoResult) =>
        /\ result.dice_rolls[1] = first_result.dice_rolls[1]
        /\ IF EdgeRank(first_result.edge_type) <= EdgeRank(result.edge_type)
             THEN NoBetter(first_result, result)
             ELSE NoBetter(result, first_result)

\* rolls 3 and 9 at difficulty 10: a failure under disadvantage, a strong
\* success under advantage
C29_Witness ==
    /\ pc = "returned"
    /\ first_result # NoResult
    /\ first_result.edge_type = "disadvantage"
    /\ result.edge_type = "advantage"
    /\ result.dice_rolls = <<3, 9>>
    /\ TierRank(first_result.outcome) < TierRank(result.outcome)

C25_InvocationsDoNotInterfere ==
    \A i \in Invocations :
        invocation[i].pc = "returned" =>
            LET r == invocation[i].result
                a == invocation[i].args
            IN  /\ r.dice_rolls = invocation[i].drawn
                /\ Len(r.dice_rolls) = (IF a.edge = "none" THEN 1 ELSE 2)
                /\ r.edge_type = a.edge
                /\ IsFloorOf(r.attribute_bonus, a.attribute_score, 2)
                /\ IsFloorOf(r.skill_rank, a.skill_score, 4)
                /\ r.total = DieUsed(invocation[i].drawn, a.edge) + r.attribute_bonus
                                 + r.skill_rank + a.situational_modifier
                /\ r.margin = r.total - a.difficulty
                /\ r.outcome = TierOf(r.total, a.difficulty)

\* two invocations whose draws alternated, each returned with its own rolls
C25_Witness ==
    /\ source = <<1, 2, 1, 2>>
    /\ invocation[1].pc = "returned"
    /\ invocation[2].pc = "returned"
    /\ invocation[1].result.dice_rolls = <<4, 11>>
    /\ invocation[2].result.dice_rolls = <<9, 2>>
    /\ invocation[1].args.edge = "advantage"
    /\ invocation[2].args.edge = "disadvantage"

====
